---- MODULE Spec2Model ----
(***************************************************************************)
(* Sun path viewer (src/src/App.jsx): the React component App, its two     *)
(* effects (three.js scene construction, sun and light update), the        *)
(* GLTF loader callbacks, the animation loop and the resize handler.       *)
(***************************************************************************)
EXTENDS Integers, Sequences, FiniteSets, TLC

(***************************************************************************)
(* JavaScript numbers.  A double is modelled by its leading term:          *)
(*   o = 0        m / Scale                 (ordinary magnitudes)          *)
(*   o = 1, 2     (m / Scale) * TAU^o       TAU = Math.cos(Math.PI/2)      *)
(*                                              = 6.123233995736766e-17    *)
(*   o = OrdMin   m * Number.MIN_VALUE      (subnormal, m an integer)      *)
(*   o = OrdNaN   NaN                                                      *)
(* A term of higher order is below half an ulp of any non-zero term of     *)
(* lower order, so addition absorbs it, as IEEE-754 rounding does.         *)
(* +0 and -0 are one value (they are === in JavaScript).                   *)
(***************************************************************************)
Scale == 1000
OrdMin == 9
OrdNaN == -1

Num(m) == [o |-> 0, m |-> m]
NaN == [o |-> OrdNaN, m |-> 0]
Zero == Num(0)
IsNaN(a) == a.o = OrdNaN
Norm(o, m) == IF m = 0 THEN Zero ELSE [o |-> o, m |-> m]
FromInt(n) == Num(n * Scale)
Abs(n) == IF n < 0 THEN -n ELSE n
Sgn(n) == IF n < 0 THEN -1 ELSE IF n > 0 THEN 1 ELSE 0

\* p / Scale rounded to the nearest unit (mantissa of a product)
RoundDiv(p) == Sgn(p) * ((2 * Abs(p) + Scale) \div (2 * Scale))

\* p / Scale rounded to the nearest integer, ties to even (subnormal product)
RoundEven(p) ==
  LET q == Abs(p) \div Scale
      r == Abs(p) % Scale
  IN Sgn(p) * (IF 2 * r < Scale THEN q
               ELSE IF 2 * r > Scale THEN q + 1
               ELSE IF q % 2 = 0 THEN q ELSE q + 1)

\* a * b
Mul(a, b) ==
  IF IsNaN(a) \/ IsNaN(b) THEN NaN
  ELSE IF a.m = 0 \/ b.m = 0 THEN Zero
  ELSE IF a.o = OrdMin /\ b.o = OrdMin THEN Zero
  ELSE IF a.o = OrdMin THEN (IF b.o = 0 THEN Norm(OrdMin, RoundEven(a.m * b.m)) ELSE Zero)
  ELSE IF b.o = OrdMin THEN (IF a.o = 0 THEN Norm(OrdMin, RoundEven(a.m * b.m)) ELSE Zero)
  ELSE Norm(a.o + b.o, RoundDiv(a.m * b.m))

\* a + b
Add(a, b) ==
  IF IsNaN(a) \/ IsNaN(b) THEN NaN
  ELSE IF a.m = 0 THEN b
  ELSE IF b.m = 0 THEN a
  ELSE IF a.o = b.o THEN Norm(a.o, a.m + b.m)
  ELSE IF a.o < b.o THEN a ELSE b

\* -a
Neg(a) == IF IsNaN(a) THEN NaN ELSE [o |-> a.o, m |-> -a.m]

\* a < b (false when either is NaN)
Lt(a, b) ==
  /\ ~IsNaN(a)
  /\ ~IsNaN(b)
  /\ IF Sgn(a.m) # Sgn(b.m) THEN Sgn(a.m) < Sgn(b.m)
     ELSE IF Sgn(a.m) = 0 THEN FALSE
     ELSE IF a.o = b.o THEN a.m < b.m
     ELSE IF Sgn(a.m) > 0 THEN a.o > b.o ELSE a.o < b.o

\* a <= b (false when either is NaN)
Leq(a, b) == ~IsNaN(a) /\ ~IsNaN(b) /\ (a = b \/ Lt(a, b))

\* Math.max(a, b)
MathMax(a, b) ==
  IF IsNaN(a) \/ IsNaN(b) THEN NaN
  ELSE IF Lt(a, b) THEN b ELSE a

(***************************************************************************)
(* Angles (radians) of the sample grid and Math.sin / Math.cos on them.    *)
(***************************************************************************)
HalfPi == Num(1571)
Pi == Num(3142)
Deg5 == Num(87)
Deg10 == Num(175)
Deg30 == Num(524)
Deg60 == Num(1047)
MinPos == [o |-> OrdMin, m |-> 1]
Tau == [o |-> 1, m |-> Scale]

\* rows: angle, sine, cosine for the non-negative grid angles
TrigTable ==
  { [a |-> Zero,   s |-> Zero,      c |-> Num(1000)],
    [a |-> MinPos, s |-> MinPos,    c |-> Num(1000)],
    [a |-> Deg5,   s |-> Num(87),   c |-> Num(996)],
    [a |-> Deg10,  s |-> Num(174),  c |-> Num(985)],
    [a |-> Deg30,  s |-> Num(500),  c |-> Num(866)],
    [a |-> Deg60,  s |-> Num(866),  c |-> Num(500)],
    [a |-> HalfPi, s |-> Num(1000), c |-> Tau],
    [a |-> Pi,     s |-> [o |-> 1, m |-> 2 * Scale], c |-> Num(-1000)] }

TrigRow(a) == CHOOSE r \in TrigTable : r.a = (IF a.m < 0 THEN Neg(a) ELSE a)

MathSin(a) ==
  IF IsNaN(a) THEN NaN
  ELSE IF a.m < 0 THEN Neg(TrigRow(a).s) ELSE TrigRow(a).s

MathCos(a) == IF IsNaN(a) THEN NaN ELSE TrigRow(a).c

(***************************************************************************)
(* Configuration constants and literals of App.jsx.                        *)
(***************************************************************************)
INIT_LAT == 312304       \* 31.2304 degrees, in 1e-4 degree
INIT_LON == 1214737      \* 121.4737 degrees, in 1e-4 degree
RADIUS == 50
InitMinuteOfDay == 840   \* 14 * 60
DaySkyColor == 16777215      \* 0xffffff
DayGroundColor == 4473924    \* 0x444444
NightSkyColor == 1118515     \* 0x111133
NightGroundColor == 0        \* 0x000000

NightHemiIntensity == Num(50)     \* 0.05
DayFloor == Num(500)              \* 0.5
DayPeak == Num(3000)              \* 3.0
AmbientBase == Num(400)           \* 0.4
AmbientGain == Num(400)           \* 0.4
HemiDefaultIntensity == Num(600)  \* 0.6
DirDefaultIntensity == Num(30000) \* 30.0

(***************************************************************************)
(* Inputs the controls can deliver.                                        *)
(***************************************************************************)
\* <input type="date">: "" when the field is cleared, else yyyy-mm-dd
ValidDates == <<"2024-06-21", "2024-12-21">>
DateStrs == {""} \cup {ValidDates[i] : i \in 1..Len(ValidDates)}
\* <input type="range" min=0 max=1439>
Minutes == <<0, 360, 720, 840, 1080>>
\* <input type="range" min=-90 max=90 step=0.1>, in 1e-4 degree; the first
\* entry is the initial latitude, which the slider cannot deliver
Lats == <<INIT_LAT, -900000, 0, 450000, 900000>>
SliderLats == {Lats[i] : i \in 2..Len(Lats)}
MinuteSet == {Minutes[i] : i \in 1..Len(Minutes)}
WindowSizes == {<<800, 600>>, <<1024, 768>>}

IndexOf(seq, v) == CHOOSE i \in 1..Len(seq) : seq[i] = v

(***************************************************************************)
(* SunCalc.getPosition: the external astronomical provider, a              *)
(* deterministic function of (date, lat, lon).  An Invalid Date gives NaN  *)
(* angles.  The ephemeris below is one fixed function whose range is the   *)
(* whole grid AltGrid x AzGrid, altitude in [-pi/2, pi/2], azimuth 0 =     *)
(* south and pi/2 = west.                                                  *)
(***************************************************************************)
AltGrid == <<Neg(HalfPi), Neg(Deg30), Zero, MinPos, Deg5, Deg10, Deg30, Deg60, HalfPi>>
AzGrid == <<Zero, Deg30, HalfPi, Neg(HalfPi), Pi>>
InvalidDate == [valid |-> FALSE, day |-> "", h |-> 0, mi |-> 0]

SunCalcGetPosition(date, lat, lon) ==
  IF ~date.valid THEN [altitude |-> NaN, azimuth |-> NaN]
  ELSE LET i == (IndexOf(ValidDates, date.day) - 1) * Len(Minutes) * Len(Lats)
                + (IndexOf(Minutes, date.h * 60 + date.mi) - 1) * Len(Lats)
                + (IndexOf(Lats, lat) - 1)
       IN [altitude |-> AltGrid[(i % Len(AltGrid)) + 1],
           azimuth |-> AzGrid[((i \div Len(AltGrid)) % Len(AzGrid)) + 1]]

\* const x = r_flat * Math.sin(azimuth)   (negation dropped)
getSunPositionNoNegation(date, lat, lon) ==
  LET pos == SunCalcGetPosition(date, lat, lon)
      r_flat == Mul(MathCos(pos.altitude), FromInt(RADIUS))
  IN [x |-> Mul(r_flat, MathSin(pos.azimuth)),
      y |-> Mul(MathSin(pos.altitude), FromInt(RADIUS)),
      z |-> Mul(r_flat, MathCos(pos.azimuth)),
      altitude |-> pos.altitude, azimuth |-> pos.azimuth]

\* sine and cosine of the altitude exchanged
getSunPositionSwapped(date, lat, lon) ==
  LET pos == SunCalcGetPosition(date, lat, lon)
      r_flat == Mul(MathSin(pos.altitude), FromInt(RADIUS))
  IN [x |-> Mul(Neg(r_flat), MathSin(pos.azimuth)),
      y |-> Mul(MathCos(pos.altitude), FromInt(RADIUS)),
      z |-> Mul(r_flat, MathCos(pos.azimuth)),
      altitude |-> pos.altitude, azimuth |-> pos.azimuth]

getSunPosition(date, lat, lon) ==
  LET pos == SunCalcGetPosition(date, lat, lon)
      r_flat == Mul(MathCos(pos.altitude), FromInt(RADIUS))
  IN [x |-> Mul(Neg(r_flat), MathSin(pos.azimuth)),
      y |-> Mul(MathSin(pos.altitude), FromInt(RADIUS)),
      z |-> Mul(r_flat, MathCos(pos.azimuth)),
      altitude |-> pos.altitude, azimuth |-> pos.azimuth]

\* useMemo: new Date(dateStr); d.setHours(h, m, 0, 0)
currentDateOf(ds, minute) ==
  IF ds = "" THEN InvalidDate
  ELSE [valid |-> TRUE, day |-> ds, h |-> minute \div 60, mi |-> minute % 60]

\* useMemo: getSunPosition(currentDate, lat, lon)
sunPosOf(ds, minute, la, lo) == getSunPosition(currentDateOf(ds, minute), la, lo)

(***************************************************************************)
(* sceneRef.current and the objects it refers to.                          *)
(***************************************************************************)
Null == [null |-> TRUE]
Origin == <<Zero, Zero, Zero>>
NullSceneRef == [sunMesh |-> Null, dirLight |-> Null, hemiLight |-> Null]

\* new HemisphereLight(0xffffff, 0x444444, 0.6); new DirectionalLight(0xfffaf0, 30.0);
\* new Mesh(sunGeo, sunMat)
NewSceneRef ==
  [sunMesh |-> [null |-> FALSE, position |-> Origin, visible |-> TRUE],
   dirLight |-> [null |-> FALSE, position |-> <<Zero, FromInt(1), Zero>>,
                 intensity |-> DirDefaultIntensity],
   hemiLight |-> [null |-> FALSE, intensity |-> HemiDefaultIntensity,
                  color |-> DaySkyColor, groundColor |-> DayGroundColor]]

IsNightStrict(sp) == Lt(sp.altitude, Zero)

\* if (sunPos.altitude <= 0)
IsNight(sp) == Leq(sp.altitude, Zero)

NightBranchKeepsMarker(ref) ==
  [ref EXCEPT !.dirLight.intensity = Zero,
              !.hemiLight.intensity = NightHemiIntensity,
              !.hemiLight.color = NightSkyColor,
              !.hemiLight.groundColor = NightGroundColor]

NightBranch(ref) ==
  [ref EXCEPT !.dirLight.intensity = Zero,
              !.hemiLight.intensity = NightHemiIntensity,
              !.hemiLight.color = NightSkyColor,
              !.hemiLight.groundColor = NightGroundColor,
              !.sunMesh.visible = FALSE]

DirIntensityNoFloor(angleFactor) == Mul(angleFactor, DayPeak)

\* Math.max(0.5, angleFactor * 3.0)
DirIntensityDay(angleFactor) == MathMax(DayFloor, Mul(angleFactor, DayPeak))

HemiIntensityFromDefault(angleFactor) ==
  Add(HemiDefaultIntensity, Mul(angleFactor, AmbientGain))

\* 0.4 + angleFactor * 0.4
HemiIntensityDay(angleFactor) == Add(AmbientBase, Mul(angleFactor, AmbientGain))

DayBranchKeepsColor(ref, sp) ==
  LET angleFactor == MathSin(sp.altitude)
  IN [ref EXCEPT !.dirLight.intensity = DirIntensityDay(angleFactor),
                 !.hemiLight.intensity = HemiIntensityDay(angleFactor),
                 !.hemiLight.groundColor = DayGroundColor,
                 !.sunMesh.visible = TRUE]

DayBranch(ref, sp) ==
  LET angleFactor == MathSin(sp.altitude)
  IN [ref EXCEPT !.dirLight.intensity = DirIntensityDay(angleFactor),
                 !.hemiLight.intensity = HemiIntensityDay(angleFactor),
                 !.hemiLight.color = DaySkyColor,
                 !.hemiLight.groundColor = DayGroundColor,
                 !.sunMesh.visible = TRUE]

\* body of the sun update effect
SunUpdate(ref, sp) ==
  IF ref.dirLight.null \/ ref.sunMesh.null THEN ref
  ELSE LET moved == [ref EXCEPT !.sunMesh.position = <<sp.x, sp.y, sp.z>>,
                                !.dirLight.position = <<sp.x, sp.y, sp.z>>]
       IN IF IsNight(sp) THEN NightBranch(moved) ELSE DayBranch(moved, sp)

(***************************************************************************)
(* State of the running page.                                              *)
(***************************************************************************)
MaxFrames == 3      \* animation frames requested in a run
MaxProgress == 1    \* progress events of the loader in a run

VARIABLES
  minuteOfDay, dateStr, lat, lon,   \* useState
  sunPos,                           \* useMemo
  sceneRef,                         \* useRef: sunMesh, dirLight, hemiLight
  pc,                               \* "rendered", "initDone", "ready", "unmounted"
  effectPending,                    \* sun update effect scheduled, not yet run
  sceneObjects,                     \* children added to the THREE.Scene
  loadState,                        \* GLTFLoader: "idle", "loading", "loaded", "failed"
  errorLog, progressLog,            \* console.error / console.log calls
  frameId, pending, rafCounter,     \* requestAnimationFrame
  renderCount,                      \* calls of renderer.render
  resizeListener,                   \* window 'resize' listener registered
  windowSize, rendererSize, cameraAspect,
  rendererDisposed, canvasAttached,
  branchesTaken                     \* branches the sun update has taken so far

vars == <<minuteOfDay, dateStr, lat, lon, sunPos, sceneRef, pc, effectPending, sceneObjects,
          loadState, errorLog, progressLog, frameId, pending, rafCounter,
          renderCount, resizeListener, windowSize, rendererSize, cameraAspect,
          rendererDisposed, canvasAttached, branchesTaken>>

inputVars == <<minuteOfDay, dateStr, lat, lon, sunPos>>
loaderVars == <<loadState, errorLog, progressLog>>
frameVars == <<frameId, pending, rafCounter, renderCount>>
viewVars == <<resizeListener, windowSize, rendererSize, cameraAspect,
              rendererDisposed, canvasAttached>>

\* addLabel(text, x, z)
Labels == [N |-> <<0, -45>>, S |-> <<0, 45>>, E |-> <<45, 0>>, W |-> <<-45, 0>>]

\* state after the first render of App: useState initialisers and memos
\* evaluated, no effect run yet
Init ==
  /\ minuteOfDay = InitMinuteOfDay
  /\ dateStr \in {ValidDates[i] : i \in 1..Len(ValidDates)}
  /\ lat = INIT_LAT
  /\ lon = INIT_LON
  /\ sunPos = sunPosOf(dateStr, minuteOfDay, lat, lon)
  /\ sceneRef = NullSceneRef
  /\ pc = "rendered"
  /\ effectPending = TRUE
  /\ sceneObjects = {}
  /\ loadState = "idle"
  /\ errorLog = 0
  /\ progressLog = 0
  /\ frameId = 0
  /\ pending = {}
  /\ rafCounter = 0
  /\ renderCount = 0
  /\ resizeListener = FALSE
  /\ windowSize \in WindowSizes
  /\ rendererSize = <<0, 0>>
  /\ cameraAspect = <<0, 0>>
  /\ rendererDisposed = FALSE
  /\ canvasAttached = FALSE
  /\ branchesTaken = {}

\* animate: frameId = requestAnimationFrame(animate); controls.update();
\* renderer.render(scene, camera).  fired is the set of callbacks just run.
Animate(fired) ==
  /\ rafCounter' = rafCounter + 1
  /\ frameId' = rafCounter + 1
  /\ pending' = (pending \ fired) \cup {rafCounter + 1}
  /\ renderCount' = renderCount + 1

\* the initialisation effect (deps [])
MountInit ==
  /\ pc = "rendered"
  /\ rendererSize' = windowSize
  /\ cameraAspect' = windowSize
  /\ canvasAttached' = TRUE
  /\ sceneObjects' = {"plane", "grid", "hemiLight", "dirLight", "sunMesh",
                      "labelN", "labelS", "labelE", "labelW"}
  /\ loadState' = "loading"
  /\ sceneRef' = NewSceneRef
  /\ Animate({})
  /\ resizeListener' = TRUE
  /\ pc' = "initDone"
  /\ UNCHANGED <<inputVars, effectPending, errorLog, progressLog, windowSize,
                 rendererDisposed, branchesTaken>>

\* the sun update effect (deps [sunPos]).  Its first run is in the same
\* flush as MountInit; later runs follow the commit of a re-render, and
\* frames, resizes and loader callbacks may come in between.
SunEffect ==
  /\ pc \in {"initDone", "ready"}
  /\ effectPending
  /\ sceneRef' = SunUpdate(sceneRef, sunPos)
  /\ branchesTaken' = branchesTaken \cup {IF IsNight(sunPos) THEN "night" ELSE "day"}
  /\ effectPending' = FALSE
  /\ pc' = "ready"
  /\ UNCHANGED <<inputVars, sceneObjects, loaderVars, frameVars, viewVars>>

\* onChange of the time slider: setMinuteOfDay, re-render (memos), effect scheduled
SetMinuteOfDay(v) ==
  /\ pc = "ready"
  /\ ~effectPending
  /\ v # minuteOfDay
  /\ minuteOfDay' = v
  /\ sunPos' = sunPosOf(dateStr, v, lat, lon)
  /\ effectPending' = TRUE
  /\ UNCHANGED <<dateStr, lat, lon, sceneRef, pc, sceneObjects, loaderVars, frameVars,
                 viewVars, branchesTaken>>

\* onChange of the date field: setDateStr, re-render (memos), effect scheduled
SetDateStr(v) ==
  /\ pc = "ready"
  /\ ~effectPending
  /\ v # dateStr
  /\ dateStr' = v
  /\ sunPos' = sunPosOf(v, minuteOfDay, lat, lon)
  /\ effectPending' = TRUE
  /\ UNCHANGED <<minuteOfDay, lat, lon, sceneRef, pc, sceneObjects, loaderVars, frameVars,
                 viewVars, branchesTaken>>

\* onChange of the latitude slider: setLat, re-render (memos), effect scheduled
SetLat(v) ==
  /\ pc = "ready"
  /\ ~effectPending
  /\ v # lat
  /\ lat' = v
  /\ sunPos' = sunPosOf(dateStr, minuteOfDay, v, lon)
  /\ effectPending' = TRUE
  /\ UNCHANGED <<minuteOfDay, dateStr, lon, sceneRef, pc, sceneObjects, loaderVars, frameVars,
                 viewVars, branchesTaken>>

\* the browser runs a pending animation frame callback
Frame ==
  /\ pc # "initDone"
  /\ rafCounter < MaxFrames
  /\ \E id \in pending : Animate({id})
  /\ UNCHANGED <<inputVars, sceneRef, pc, effectPending, sceneObjects, loaderVars,
                 viewVars, branchesTaken>>

\* the window is resized; handleResize runs if it is registered
WindowResize(size) ==
  /\ pc # "initDone"
  /\ size # windowSize
  /\ windowSize' = size
  /\ IF resizeListener
       THEN cameraAspect' = size /\ rendererSize' = size
       ELSE UNCHANGED <<cameraAspect, rendererSize>>
  /\ UNCHANGED <<inputVars, sceneRef, pc, effectPending, sceneObjects, loaderVars,
                 frameVars, resizeListener, rendererDisposed, canvasAttached, branchesTaken>>

\* loader onProgress callback
LoadProgress ==
  /\ pc # "initDone"
  /\ loadState = "loading"
  /\ progressLog < MaxProgress
  /\ progressLog' = progressLog + 1
  /\ UNCHANGED <<inputVars, sceneRef, pc, effectPending, sceneObjects, loadState, errorLog,
                 frameVars, viewVars, branchesTaken>>

\* loader onLoad callback: scene.add(model)
LoadSuccess ==
  /\ pc # "initDone"
  /\ loadState = "loading"
  /\ loadState' = "loaded"
  /\ sceneObjects' = sceneObjects \cup {"car"}
  /\ UNCHANGED <<inputVars, sceneRef, pc, effectPending, errorLog, progressLog, frameVars,
                 viewVars, branchesTaken>>

LoadErrorNoPlaceholder ==
  /\ pc # "initDone"
  /\ loadState = "loading"
  /\ loadState' = "failed"
  /\ errorLog' = errorLog + 1
  /\ UNCHANGED <<inputVars, sceneRef, pc, effectPending, sceneObjects, progressLog, frameVars,
                 viewVars, branchesTaken>>

\* loader onError callback: console.error, scene.add(box)
LoadError ==
  /\ pc # "initDone"
  /\ loadState = "loading"
  /\ loadState' = "failed"
  /\ errorLog' = errorLog + 1
  /\ sceneObjects' = sceneObjects \cup {"box"}
  /\ UNCHANGED <<inputVars, sceneRef, pc, effectPending, progressLog, frameVars, viewVars,
                 branchesTaken>>

UnmountNoCancel ==
  /\ pc = "ready"
  /\ ~effectPending
  /\ resizeListener' = FALSE
  /\ rendererDisposed' = TRUE
  /\ canvasAttached' = FALSE
  /\ pc' = "unmounted"
  /\ UNCHANGED <<inputVars, sceneRef, effectPending, sceneObjects, loaderVars, frameVars,
                 windowSize, rendererSize, cameraAspect, branchesTaken>>

\* cleanup of the initialisation effect
Unmount ==
  /\ pc = "ready"
  /\ ~effectPending
  /\ resizeListener' = FALSE
  /\ pending' = pending \ {frameId}
  /\ rendererDisposed' = TRUE
  /\ canvasAttached' = FALSE
  /\ pc' = "unmounted"
  /\ UNCHANGED <<inputVars, sceneRef, effectPending, sceneObjects, loaderVars, frameId, rafCounter,
                 renderCount, windowSize, rendererSize, cameraAspect, branchesTaken>>

Next ==
  \/ MountInit
  \/ SunEffect
  \/ \E v \in MinuteSet : SetMinuteOfDay(v)
  \/ \E v \in DateStrs : SetDateStr(v)
  \/ \E v \in SliderLats : SetLat(v)
  \/ Frame
  \/ \E size \in WindowSizes : WindowResize(size)
  \/ LoadProgress
  \/ LoadSuccess
  \/ LoadError
  \/ Unmount

Spec == Init /\ [][Next]_vars

(***************************************************************************)
(* Properties.                                                             *)
(***************************************************************************)
\* the sun update effect has run for the current inputs
Updated == pc \in {"ready", "unmounted"} /\ ~effectPending

AltitudePositive == ~IsNaN(sunPos.altitude) /\ sunPos.altitude.m > 0
AltitudeNotPositive == ~IsNaN(sunPos.altitude) /\ sunPos.altitude.m <= 0
DayAltitudes == {AltGrid[i] : i \in 1..Len(AltGrid)} \ {a \in {AltGrid[i] : i \in 1..Len(AltGrid)} : a.m <= 0}

\* below 1e-14 in magnitude: zero or a rounding residue
Negligible(v) == ~IsNaN(v) /\ (v.m = 0 \/ v.o >= 1)

\* directional intensity a fresh scene gets at altitude a
DirIntensityAt(a) ==
  SunUpdate(NewSceneRef, [x |-> Zero, y |-> Zero, z |-> Zero,
                          altitude |-> a, azimuth |-> Zero]).dirLight.intensity

\* C1: whenever the altitude is <= 0 (0 included), the update leaves the
\* directional intensity 0, the hemisphere intensity 0.05, the hemisphere
\* colour the night tint 0x111133 (which differs from the day tint) and the
\* sun marker hidden.
C1_NightIllumination ==
  (Updated /\ AltitudeNotPositive) =>
    /\ sceneRef.dirLight.intensity = Zero
    /\ sceneRef.hemiLight.intensity = Num(50)
    /\ sceneRef.hemiLight.color = NightSkyColor
    /\ NightSkyColor # DaySkyColor
    /\ sceneRef.sunMesh.visible = FALSE

C1_Witness ==
  Updated /\ sunPos.altitude = Zero /\ sceneRef.dirLight.intensity = Zero
  /\ "day" \in branchesTaken

C3_HorizonJump ==
  /\ (Updated /\ sunPos.altitude = MinPos) =>
       /\ sceneRef.dirLight.intensity = Num(500)
       /\ sceneRef.hemiLight.intensity = Num(400)
       /\ sceneRef.sunMesh.visible = TRUE
  /\ (Updated /\ sunPos.altitude = Zero) =>
       /\ sceneRef.dirLight.intensity = Zero
       /\ sceneRef.hemiLight.intensity = Num(50)
       /\ sceneRef.sunMesh.visible = FALSE
  /\ ~sceneRef.dirLight.null =>
       ~(Lt(Zero, sceneRef.dirLight.intensity) /\ Lt(sceneRef.dirLight.intensity, Num(500)))

C3_Witness ==
  Updated /\ sunPos.altitude = MinPos /\ "night" \in branchesTaken
  /\ sceneRef.dirLight.intensity = Num(500)

\* C4 as claimed: altitude 0, azimuth 0 gives (0, 0, RADIUS); altitude 0,
\* azimuth pi/2 gives (-RADIUS, 0, 0).
C4_AsClaimed ==
  /\ (sunPos.altitude = Zero /\ sunPos.azimuth = Zero) =>
       (sunPos.x = Zero /\ sunPos.y = Zero /\ sunPos.z = FromInt(RADIUS))
  /\ (sunPos.altitude = Zero /\ sunPos.azimuth = HalfPi) =>
       (sunPos.x = FromInt(-RADIUS) /\ sunPos.y = Zero /\ sunPos.z = Zero)

\* C4 amended: altitude 0, azimuth 0 gives (0, 0, RADIUS), on the side of
\* the S label; altitude 0, azimuth pi/2 gives x = -RADIUS (the side of the
\* W label), y = 0 and z = RADIUS * Math.cos(Math.PI/2), a positive
\* rounding residue (about 3.06e-15) and not exactly 0.
C4_HorizonDirections ==
  /\ (sunPos.altitude = Zero /\ sunPos.azimuth = Zero) =>
       /\ sunPos.x = Zero /\ sunPos.y = Zero /\ sunPos.z = FromInt(RADIUS)
       /\ Sgn(sunPos.z.m) = Sgn(Labels.S[2]) /\ Labels.S[1] = 0
  /\ (sunPos.altitude = Zero /\ sunPos.azimuth = HalfPi) =>
       /\ sunPos.x = FromInt(-RADIUS) /\ sunPos.y = Zero
       /\ sunPos.z = [o |-> 1, m |-> RADIUS * Scale]
       /\ Negligible(sunPos.z)
       /\ Sgn(sunPos.x.m) = Sgn(Labels.W[1]) /\ Labels.W[2] = 0

C4_Witness ==
  Updated /\ sunPos.altitude = Zero /\ sunPos.azimuth = HalfPi
  /\ sceneRef.sunMesh.position[1] = FromInt(-RADIUS)

\* C5 as claimed: at altitude pi/2 the result is (0, RADIUS, 0) whatever the
\* azimuth.
C5_AsClaimed ==
  (sunPos.altitude = HalfPi) =>
    (sunPos.x = Zero /\ sunPos.y = FromInt(RADIUS) /\ sunPos.z = Zero)

\* C5 amended: at altitude pi/2, y = RADIUS for every azimuth, and x and z
\* are rounding residues of magnitude at most RADIUS * Math.cos(Math.PI/2)
\* (about 3.06e-15, below 1e-14): x = -residue * sin(azimuth) and
\* z = residue * cos(azimuth), so they vary with the azimuth and are not
\* both 0.
C5_Zenith ==
  (sunPos.altitude = HalfPi) =>
    /\ sunPos.y = FromInt(RADIUS)
    /\ Negligible(sunPos.x) /\ Negligible(sunPos.z)
    /\ sunPos.x = Mul(Neg(Mul(Tau, FromInt(RADIUS))), MathSin(sunPos.azimuth))
    /\ sunPos.z = Mul(Mul(Tau, FromInt(RADIUS)), MathCos(sunPos.azimuth))
    /\ ~(sunPos.x = Zero /\ sunPos.z = Zero)

C5_Witness ==
  Updated /\ sunPos.altitude = HalfPi /\ sunPos.azimuth = Deg30
  /\ sceneRef.dirLight.position[2] = FromInt(RADIUS)

\* C6: once the update has run for the current inputs, every field it
\* writes equals what one update of a freshly constructed scene with the
\* same date, time and latitude gives, whatever changes came before, and
\* running the update again changes nothing.
C6_NoHistory ==
  Updated =>
    /\ sceneRef = SunUpdate(NewSceneRef,
                            getSunPosition(currentDateOf(dateStr, minuteOfDay), lat, lon))
    /\ SunUpdate(sceneRef, sunPos) = sceneRef

C6_Witness ==
  /\ Updated
  /\ branchesTaken = {"day", "night"}
  /\ AltitudePositive
  /\ lat # INIT_LAT
  /\ minuteOfDay # InitMinuteOfDay
  /\ sceneRef.hemiLight.color = DaySkyColor

\* C7: a failed load is reported and puts the placeholder box, not the car,
\* in the scene; a successful load puts the car and no box; never both; and
\* no loader callback touches the lights or the sun marker.
C7_LoadFallback ==
  /\ [](/\ loadState = "failed" =>
              (errorLog = 1 /\ "box" \in sceneObjects /\ "car" \notin sceneObjects)
        /\ loadState = "loaded" =>
              (errorLog = 0 /\ "car" \in sceneObjects /\ "box" \notin sceneObjects)
        /\ loadState \in {"idle", "loading"} =>
              ("car" \notin sceneObjects /\ "box" \notin sceneObjects)
        /\ ~("car" \in sceneObjects /\ "box" \in sceneObjects))
  /\ [][(loadState = "loading" /\ (loadState' # loadState \/ progressLog' # progressLog))
          => sceneRef' = sceneRef]_vars

C7_Witness ==
  loadState = "failed" /\ "box" \in sceneObjects /\ errorLog = 1 /\ Updated

\* intensity 0 or within [0.5, 3.0]
IntensityDerived(i) == i = Zero \/ (i.o = 0 /\ 500 <= i.m /\ i.m <= 3000)

\* C8: at every call of renderer.render the directional intensity is 0 or
\* within [0.5, 3.0] and the light and the marker are at the position of
\* the current sunPos; the constructor defaults are never rendered.
C8_EveryFrameDerived ==
  [][renderCount' # renderCount =>
       /\ IntensityDerived(sceneRef'.dirLight.intensity)
       /\ sceneRef'.dirLight.position = <<sunPos'.x, sunPos'.y, sunPos'.z>>
       /\ sceneRef'.sunMesh.position = <<sunPos'.x, sunPos'.y, sunPos'.z>>
       /\ sceneRef'.dirLight.intensity # DirDefaultIntensity
       /\ sceneRef'.hemiLight.intensity # HemiDefaultIntensity]_vars

\* marker visible, light lit, sun above the horizon, marker above the ground
SunStateAgrees ==
  /\ sceneRef.dirLight.position = sceneRef.sunMesh.position
  /\ sceneRef.sunMesh.visible <=> Lt(Zero, sceneRef.dirLight.intensity)
  /\ sceneRef.sunMesh.visible <=> Lt(Zero, sunPos.altitude)
  /\ sceneRef.sunMesh.visible <=> Lt(Zero, sceneRef.sunMesh.position[2])

\* C9 as claimed: after every run of the sun update the light and the
\* marker coincide, and marker visible, intensity > 0, altitude > 0 and
\* y > 0 are all true or all false.
C9_AsClaimed == Updated => SunStateAgrees

\* C9 amended: the same, after every run of the sun update for a valid
\* date; with the date field empty the angles are NaN, and the marker is
\* visible while intensity > 0, altitude > 0 and y > 0 are all false.
C9_MarkerLightAgree ==
  /\ (Updated /\ ~IsNaN(sunPos.altitude)) => SunStateAgrees
  /\ (Updated /\ IsNaN(sunPos.altitude)) =>
       /\ dateStr = ""
       /\ sceneRef.dirLight.position = sceneRef.sunMesh.position
       /\ sceneRef.sunMesh.visible
       /\ IsNaN(sceneRef.dirLight.intensity)
       /\ IsNaN(sceneRef.sunMesh.position[2])

C9_Witness ==
  /\ Updated
  /\ sunPos.altitude = Neg(Deg30)
  /\ "day" \in branchesTaken
  /\ ~sceneRef.sunMesh.visible
  /\ Lt(sceneRef.sunMesh.position[2], Zero)

\* C10: after the cleanup no frame is rendered and no resize is handled;
\* at most one frame is pending at any time, while mounted it is the one
\* frameId names, and the cleanup leaves none pending.
C10_NoFrameAfterCleanup ==
  /\ [](/\ Cardinality(pending) <= 1
        /\ pc \in {"initDone", "ready"} => pending = {frameId}
        /\ pc = "unmounted" => (pending = {} /\ ~resizeListener))
  /\ [][pc = "unmounted" =>
          /\ renderCount' = renderCount
          /\ rafCounter' = rafCounter
          /\ rendererSize' = rendererSize
          /\ cameraAspect' = cameraAspect]_vars

C10_Witness ==
  /\ pc = "unmounted"
  /\ renderCount >= 2
  /\ rafCounter < MaxFrames
  /\ windowSize # rendererSize

====
